---- MODULE Spec2Model ----
(***************************************************************************)
(* A model of src/streamlit_app.py: the dashboard script that Streamlit    *)
(* re-executes top to bottom for every interaction of every session, the   *)
(* process-wide cache of load_data() and the data directory it reads.      *)
(*                                                                         *)
(* Spec        the sessions' script runs against the shared cache and the  *)
(*             data directory                                              *)
(* SpecSelect  a cold load_data() over every small data directory          *)
(* SpecRender  one pass over the page body, per set of optional columns    *)
(* SpecRank    total_players and rank_dist over every small frame          *)
(* SpecFilter  the filters of the detail tab over every small frame        *)
(* SpecWin     win_rate and the cumulative win rate over every small frame *)
(***************************************************************************)
EXTENDS Integers, Sequences, FiniteSets, TLC

VARIABLES
    now,        \* wall clock, seconds
    dir,        \* the files of ./data
    fsClock,    \* the file system's clock: the stamp of the last write
    cache,      \* st.cache_data's single entry for load_data()
    lastCall,   \* when load_data() last returned since the last clear (-1: never)
    pc,         \* per session: where its script run is
    uploaded,   \* per session: what the st.file_uploader widget holds
    df,         \* per session: the frame load_data() is building / has returned
    via,        \* per session: how load_data() answered in this run
    note,       \* per session: what the upload block reported in this run
    pressed,    \* per session: this run was started by the bottom refresh button
    cols,       \* one render pass: the optional columns the frame has
    comeback,   \* one render pass: some row has 是否翻盘 = 1
    rpc,        \* one render pass: the section the script is at
    shown,      \* one render pass: the charts and metrics rendered so far
    rows,       \* the aggregates: the frame's rows
    stage,      \* the aggregates: what has been computed
    out         \* the aggregates: the values computed

mainVars == <<now, dir, fsClock, cache, lastCall, pc, uploaded, df, via, note, pressed>>

renderVars == <<cols, comeback, rpc, shown>>

aggVars == <<rows, stage, out>>

\* What the render cycles of Spec leave alone.
aside == <<renderVars, aggVars>>

vars == <<mainVars, renderVars, aggVars>>

(***************************************************************************)
(* Bounds of the model and constants of the program.                       *)
(***************************************************************************)
Sessions == {"s1", "s2"}

\* @st.cache_data(ttl=3600)
TTL == 3600

\* The clock advances in steps of TickSecs up to MaxClock.
TickSecs == 1800

MaxClock == 3600

\* How many dayresult files the data pipeline writes, and how many files the
\* upload block writes.
MaxFiles == 1

MaxUploads == 1

(***************************************************************************)
(* Frames. pd.DataFrame() is the empty frame; the notice is what the       *)
(* cached function showed while it ran (Streamlit replays it on a hit).    *)
(* derived: the columns 日期 and 小时 have been added.                     *)
(***************************************************************************)
NoDF == [kind |-> "none", file |-> 0, notice |-> "", derived |-> FALSE]

EmptyFrame(n) == [kind |-> "empty", file |-> 0, notice |-> n, derived |-> FALSE]

RawFrame(f) == [kind |-> "data", file |-> f.id, notice |-> "", derived |-> FALSE]

NoEntry == [val |-> NoDF, at |-> -1]

\* df.empty
IsEmpty(d) == d.kind = "empty"

(***************************************************************************)
(* The data directory. A file's name is prefix + stamp + extension.        *)
(***************************************************************************)
\* A glob of "*.xlsx": every spreadsheet of the directory.
GlobAnyXlsx(d) == {f \in d : f.ext = ".xlsx"}

\* data_dir.glob("dayresult*.xlsx")
Glob(d) == {f \in d : f.prefix = "dayresult" /\ f.ext = ".xlsx"}

\* max(excel_files, key=os.path.getctime): a file no other file's ctime
\* exceeds (max returns the first such file in the glob's order, which is
\* the directory's).
LatestFiles(files) == {f \in files : \A g \in files : g.ctime <= f.ctime}

Uploads(d) == {f \in d : f.prefix = "uploaded_"}

\* A ttl of 60: the hour taken for a number of minutes.
CacheFreshTtl60 == cache.val.kind # "none" /\ now - cache.at < 60

\* The entry is there and younger than the ttl (the age counts from the
\* moment the entry was stored).
CacheFresh == cache.val.kind # "none" /\ now - cache.at < TTL

Idle == {"init", "done", "stopped", "crashed"}

\* The script run of session s ends in state p: what it held is gone.
EndRun(s, p) ==
    /\ pc' = [pc EXCEPT ![s] = p]
    /\ df' = [df EXCEPT ![s] = NoDF]
    /\ via' = [via EXCEPT ![s] = "none"]
    /\ note' = [note EXCEPT ![s] = "none"]
    /\ pressed' = [pressed EXCEPT ![s] = FALSE]

\* A new script run of session s starts at the top of the script.
StartRun(s) ==
    /\ pc' = [pc EXCEPT ![s] = "upload"]
    /\ df' = [df EXCEPT ![s] = NoDF]
    /\ via' = [via EXCEPT ![s] = "none"]
    /\ note' = [note EXCEPT ![s] = "none"]

(***************************************************************************)
(* What the user does.                                                     *)
(***************************************************************************)
\* Connecting, or changing any widget other than the ones below.
UserInteract(s) ==
    /\ pc[s] \in Idle
    /\ StartRun(s)
    /\ pressed' = [pressed EXCEPT ![s] = FALSE]
    /\ UNCHANGED <<aside, now, dir, fsClock, cache, lastCall, uploaded>>

\* Putting a file into the uploader.
UserChooseFile(s) ==
    /\ pc[s] \in Idle
    /\ \E good \in BOOLEAN :
          uploaded' = [uploaded EXCEPT ![s] = [held |-> TRUE, good |-> good]]
    /\ StartRun(s)
    /\ pressed' = [pressed EXCEPT ![s] = FALSE]
    /\ UNCHANGED <<aside, now, dir, fsClock, cache, lastCall>>

NoUpload == [held |-> FALSE, good |-> FALSE]

\* Taking the file out of the uploader.
UserRemoveFile(s) ==
    /\ pc[s] \in Idle
    /\ uploaded[s].held
    /\ uploaded' = [uploaded EXCEPT ![s] = NoUpload]
    /\ StartRun(s)
    /\ pressed' = [pressed EXCEPT ![s] = FALSE]
    /\ UNCHANGED <<aside, now, dir, fsClock, cache, lastCall>>

\* Lines 77-79: the sidebar's refresh button.
SidebarRefresh(s) ==
    /\ pc[s] \in Idle
    /\ cache' = NoEntry
    /\ lastCall' = -1
    /\ StartRun(s)
    /\ pressed' = [pressed EXCEPT ![s] = FALSE]
    /\ UNCHANGED <<aside, now, dir, fsClock, uploaded>>

\* A click on the bottom refresh button, which the page shows only when the
\* last run reached line 455.
BottomRefreshClick(s) ==
    /\ pc[s] = "done"
    /\ StartRun(s)
    /\ pressed' = [pressed EXCEPT ![s] = TRUE]
    /\ UNCHANGED <<aside, now, dir, fsClock, cache, lastCall, uploaded>>

(***************************************************************************)
(* Lines 82-97: the upload block.                                          *)
(***************************************************************************)
UploadedFile ==
    [id |-> fsClock + 1, prefix |-> "uploaded_", ext |-> ".xlsx",
     ctime |-> fsClock + 1, mtime |-> fsClock + 1, ok |-> TRUE]

\* The upload block with st.cache_data.clear() ahead of the try.
UploadBlockClearsFirst(s) ==
    /\ pc[s] = "upload"
    /\ pc' = [pc EXCEPT ![s] = "load"]
    /\ IF ~uploaded[s].held
       THEN UNCHANGED <<dir, fsClock, cache, lastCall, note>>
       ELSE /\ cache' = NoEntry
            /\ lastCall' = -1
            /\ \/ /\ ~uploaded[s].good
                  /\ note' = [note EXCEPT ![s] = "upload_error"]
                  /\ UNCHANGED <<dir, fsClock>>
               \/ /\ uploaded[s].good
                  /\ Cardinality(Uploads(dir)) < MaxUploads
                  /\ dir' = dir \cup {UploadedFile}
                  /\ fsClock' = fsClock + 1
                  /\ note' = [note EXCEPT ![s] = "upload_success"]
               \/ /\ uploaded[s].good
                  /\ note' = [note EXCEPT ![s] = "upload_error"]
                  /\ UNCHANGED <<dir, fsClock>>
    /\ UNCHANGED <<aside, now, uploaded, df, via, pressed>>

UploadBlock(s) ==
    /\ pc[s] = "upload"
    /\ pc' = [pc EXCEPT ![s] = "load"]
    /\ IF ~uploaded[s].held
       THEN UNCHANGED <<dir, fsClock, cache, lastCall, note>>
       ELSE \/ \* pd.read_excel / pd.read_csv raises
               /\ ~uploaded[s].good
               /\ note' = [note EXCEPT ![s] = "upload_error"]
               /\ UNCHANGED <<dir, fsClock, cache, lastCall>>
            \/ \* read, written, st.success, st.cache_data.clear()
               /\ uploaded[s].good
               /\ Cardinality(Uploads(dir)) < MaxUploads
               /\ dir' = dir \cup {UploadedFile}
               /\ fsClock' = fsClock + 1
               /\ note' = [note EXCEPT ![s] = "upload_success"]
               /\ cache' = NoEntry
               /\ lastCall' = -1
            \/ \* df.to_excel raises (the disk is full, the directory read-only)
               /\ uploaded[s].good
               /\ note' = [note EXCEPT ![s] = "upload_error"]
               /\ UNCHANGED <<dir, fsClock, cache, lastCall>>
    /\ UNCHANGED <<aside, now, uploaded, df, via, pressed>>

(***************************************************************************)
(* Lines 26-51 and 114: df = load_data() under @st.cache_data(ttl=3600).   *)
(***************************************************************************)
\* The decorator's lookup.
LoadLookup(s) ==
    /\ pc[s] = "load"
    /\ IF CacheFresh
       THEN /\ df' = [df EXCEPT ![s] = cache.val]
            /\ via' = [via EXCEPT ![s] = "hit"]
            /\ pc' = [pc EXCEPT ![s] = "guard"]
            /\ lastCall' = now
       ELSE /\ pc' = [pc EXCEPT ![s] = "reading"]
            /\ via' = [via EXCEPT ![s] = "miss"]
            /\ UNCHANGED <<df, lastCall>>
    /\ UNCHANGED <<aside, now, dir, fsClock, cache, uploaded, note, pressed>>

\* The body without its try/except: a file that cannot be parsed ends the run.
LoadReadUnguarded(s) ==
    /\ pc[s] = "reading"
    /\ IF Glob(dir) = {}
       THEN /\ df' = [df EXCEPT ![s] = EmptyFrame("load_warning")]
            /\ pc' = [pc EXCEPT ![s] = "return"]
            /\ UNCHANGED <<via, note, pressed>>
       ELSE \E f \in LatestFiles(Glob(dir)) :
               IF f.ok
               THEN /\ df' = [df EXCEPT ![s] = RawFrame(f)]
                    /\ pc' = [pc EXCEPT ![s] = "convert"]
                    /\ UNCHANGED <<via, note, pressed>>
               ELSE EndRun(s, "crashed")
    /\ UNCHANGED <<aside, now, dir, fsClock, cache, lastCall, uploaded>>

\* The body storing the frame in the cache as soon as read_excel returns,
\* before the derived columns are added.
LoadReadPublishesRaw(s) ==
    /\ pc[s] = "reading"
    /\ IF Glob(dir) = {}
       THEN /\ df' = [df EXCEPT ![s] = EmptyFrame("load_warning")]
            /\ pc' = [pc EXCEPT ![s] = "return"]
            /\ UNCHANGED cache
       ELSE \E f \in LatestFiles(Glob(dir)) :
               IF f.ok
               THEN /\ df' = [df EXCEPT ![s] = RawFrame(f)]
                    /\ pc' = [pc EXCEPT ![s] = "convert"]
                    /\ cache' = [val |-> RawFrame(f), at |-> now]
               ELSE /\ df' = [df EXCEPT ![s] = EmptyFrame("load_error")]
                    /\ pc' = [pc EXCEPT ![s] = "return"]
                    /\ UNCHANGED cache
    /\ UNCHANGED <<aside, now, dir, fsClock, lastCall, uploaded, via, note, pressed>>

\* Lines 31-40 and 49-51: the body up to read_excel, inside try/except.
LoadRead(s) ==
    /\ pc[s] = "reading"
    /\ IF Glob(dir) = {}
       THEN /\ df' = [df EXCEPT ![s] = EmptyFrame("load_warning")]
            /\ pc' = [pc EXCEPT ![s] = "return"]
       ELSE \E f \in LatestFiles(Glob(dir)) :
               IF f.ok
               THEN /\ df' = [df EXCEPT ![s] = RawFrame(f)]
                    /\ pc' = [pc EXCEPT ![s] = "convert"]
               ELSE /\ df' = [df EXCEPT ![s] = EmptyFrame("load_error")]
                    /\ pc' = [pc EXCEPT ![s] = "return"]
    /\ UNCHANGED <<aside, now, dir, fsClock, cache, lastCall, uploaded, via, note, pressed>>

\* Lines 43-46: the derived columns.
LoadConvert(s) ==
    /\ pc[s] = "convert"
    /\ df' = [df EXCEPT ![s].derived = TRUE]
    /\ pc' = [pc EXCEPT ![s] = "return"]
    /\ UNCHANGED <<aside, now, dir, fsClock, cache, lastCall, uploaded, via, note, pressed>>

\* Lines 36, 48, 51: return; the decorator stores the value.
LoadReturn(s) ==
    /\ pc[s] = "return"
    /\ cache' = [val |-> df[s], at |-> now]
    /\ lastCall' = now
    /\ pc' = [pc EXCEPT ![s] = "guard"]
    /\ UNCHANGED <<aside, now, dir, fsClock, uploaded, df, via, note, pressed>>

\* Lines 116-118: st.error and st.stop() on an empty frame.
Guard(s) ==
    /\ pc[s] = "guard"
    /\ IF IsEmpty(df[s])
       THEN EndRun(s, "stopped")
       ELSE /\ pc' = [pc EXCEPT ![s] = "render"]
            /\ UNCHANGED <<df, via, note, pressed>>
    /\ UNCHANGED <<aside, now, dir, fsClock, cache, lastCall, uploaded>>

\* Lines 120-452: the metric cards and the tabs, which end at the footer or
\* with an uncaught exception (SpecRender has the detail).
RenderBody(s) ==
    /\ pc[s] = "render"
    /\ \/ /\ pc' = [pc EXCEPT ![s] = "footer"]
          /\ UNCHANGED <<df, via, note, pressed>>
       \/ EndRun(s, "crashed")
    /\ UNCHANGED <<aside, now, dir, fsClock, cache, lastCall, uploaded>>

\* Lines 454-457: the bottom refresh button.
Footer(s) ==
    /\ pc[s] = "footer"
    /\ IF pressed[s]
       THEN /\ cache' = NoEntry
            /\ lastCall' = -1
            /\ StartRun(s)
            /\ pressed' = [pressed EXCEPT ![s] = FALSE]
       ELSE /\ EndRun(s, "done")
            /\ UNCHANGED <<cache, lastCall>>
    /\ UNCHANGED <<aside, now, dir, fsClock, uploaded>>

(***************************************************************************)
(* The environment.                                                        *)
(***************************************************************************)
Tick ==
    /\ now + TickSecs <= MaxClock
    /\ now' = now + TickSecs
    /\ UNCHANGED <<aside, dir, fsClock, cache, lastCall, pc, uploaded, df, via, note, pressed>>

\* The data processing script writes a new dayresult file, which may be
\* unreadable.
EnvWriteFile ==
    /\ Cardinality(Glob(dir)) < MaxFiles
    /\ \E ok \in BOOLEAN :
          dir' = dir \cup {[id |-> fsClock + 1, prefix |-> "dayresult", ext |-> ".xlsx",
                            ctime |-> fsClock + 1, mtime |-> fsClock + 1, ok |-> ok]}
    /\ fsClock' = fsClock + 1
    /\ UNCHANGED <<aside, now, cache, lastCall, pc, uploaded, df, via, note, pressed>>

\* Nothing is being rendered or aggregated.
AsideIdle ==
    /\ cols = {}
    /\ comeback = FALSE
    /\ rpc = "off"
    /\ shown = {}
    /\ rows = <<>>
    /\ stage = "off"
    /\ out = <<>>

Init ==
    /\ AsideIdle
    /\ now = 0
    /\ dir = {}
    /\ fsClock = 0
    /\ cache = NoEntry
    /\ lastCall = -1
    /\ pc = [s \in Sessions |-> "init"]
    /\ uploaded = [s \in Sessions |-> NoUpload]
    /\ df = [s \in Sessions |-> NoDF]
    /\ via = [s \in Sessions |-> "none"]
    /\ note = [s \in Sessions |-> "none"]
    /\ pressed = [s \in Sessions |-> FALSE]

SessionStep(s) ==
    \/ UserInteract(s)
    \/ UserChooseFile(s)
    \/ UserRemoveFile(s)
    \/ SidebarRefresh(s)
    \/ BottomRefreshClick(s)
    \/ UploadBlock(s)
    \/ LoadLookup(s)
    \/ LoadRead(s)
    \/ LoadConvert(s)
    \/ LoadReturn(s)
    \/ Guard(s)
    \/ RenderBody(s)
    \/ Footer(s)

Next ==
    \/ \E s \in Sessions : SessionStep(s)
    \/ Tick
    \/ EnvWriteFile

Spec == Init /\ [][Next]_vars

(***************************************************************************)
(* The cache of load_data().                                               *)
(***************************************************************************)
\* Session s leaves the decorator's lookup in this step.
Looks(s) == pc[s] = "load" /\ pc'[s] # "load"

\* This step empties the cache.
Clears == cache.val.kind # "none" /\ cache'.val.kind = "none"

\* C1 as stated: a call of load_data() made less than an hour after the last
\* call returned, with no refresh and no successful upload in between, is
\* answered from the cache.
C1_HitWithinHourOfLastCall ==
    [][\A s \in Sessions :
          (Looks(s) /\ lastCall >= 0 /\ now - lastCall < TTL)
             => (via'[s] = "hit" /\ pc'[s] = "guard")]_vars

\* C1 as amended: a call of load_data() made less than an hour after the cached
\* Dataset was stored, with no refresh and no successful upload since, returns
\* the cached Dataset and does not read the data directory; and the cache is
\* emptied only by a refresh button or a successful upload.
C1_HitWithinHourOfStore ==
    [][/\ \A s \in Sessions :
             (Looks(s) /\ cache.val.kind # "none" /\ now - cache.at < TTL)
                => /\ via'[s] = "hit"
                   /\ df'[s] = cache.val
                   /\ pc'[s] = "guard"
                   /\ cache' = cache
       /\ Clears => \E s \in Sessions :
                       \/ SidebarRefresh(s)
                       \/ Footer(s) /\ pressed[s]
                       \/ UploadBlock(s) /\ note'[s] = "upload_success"]_vars

\* A call is answered from an entry stored at an earlier time.
C1_Witness ==
    \E s \in Sessions :
        pc[s] = "guard" /\ via[s] = "hit" /\ df[s] = cache.val /\ cache.at < now

\* C2: an upload that fails, in reading the file or in writing it, reports an
\* error, leaves the cache as it was and lets the run go on to load_data().
C2_FailedUploadKeepsCache ==
    [][\A s \in Sessions :
          (/\ pc[s] = "upload" /\ pc'[s] # "upload"
           /\ uploaded[s].held
           /\ (~uploaded[s].good \/ dir' = dir))
             => /\ note'[s] = "upload_error"
                /\ cache' = cache
                /\ pc'[s] = "load"]_vars

\* A malformed upload has been reported while the cache holds a Dataset.
C2_Witness ==
    \E s \in Sessions :
        /\ pc[s] = "load" /\ note[s] = "upload_error" /\ ~uploaded[s].good
        /\ cache.val.kind = "data"

\* C3: load_data() hands its caller an empty Dataset with a warning when no
\* file matches the pattern and an empty Dataset with an error message when
\* the selected file cannot be parsed, never an exception; the run then stops
\* at the placeholder and runs no aggregate.
C3_LoadNeverRaises ==
    [][\A s \in Sessions :
          /\ (pc[s] = "reading" /\ pc'[s] # "reading" /\ Glob(dir) = {})
                => (df'[s] = EmptyFrame("load_warning") /\ pc'[s] = "return")
          /\ (/\ pc[s] = "reading" /\ pc'[s] # "reading" /\ Glob(dir) # {}
              /\ \A f \in LatestFiles(Glob(dir)) : ~f.ok)
                => (df'[s] = EmptyFrame("load_error") /\ pc'[s] = "return")
          /\ (pc[s] \in {"load", "reading", "convert", "return"})
                => pc'[s] # "crashed"
          /\ (pc[s] = "guard" /\ pc'[s] # "guard" /\ IsEmpty(df[s]))
                => pc'[s] = "stopped"]_vars

\* One call has come back empty with the warning, another with the error.
C3_Witness ==
    \E s, t \in Sessions :
        /\ pc[s] = "guard" /\ df[s] = EmptyFrame("load_warning")
        /\ pc[t] = "guard" /\ df[t] = EmptyFrame("load_error")

\* A Dataset as load_data() returns it: empty, or with its derived columns.
Complete(d) == d.kind = "empty" \/ (d.kind = "data" /\ d.derived)

\* C9: with sessions interleaved, a refresh or a successful upload by one
\* session leaves the one cache empty for all of them, and what the cache
\* holds and what a call of load_data() hands to a script is always a whole
\* Dataset.
C9_WholeValuesOnly ==
    [][/\ \A s \in Sessions :
             \/ SidebarRefresh(s)
             \/ Footer(s) /\ pressed[s]
             \/ UploadBlock(s) /\ note'[s] = "upload_success"
             => cache' = NoEntry /\ ~CacheFresh'
       /\ cache'.val.kind # "none" => Complete(cache'.val)
       /\ \A s \in Sessions :
             pc'[s] \in {"guard", "render", "footer"} => Complete(df'[s])]_vars

\* One session is answered from the cache while the other is in the middle
\* of loading.
C9_Witness ==
    \E s, t \in Sessions :
        /\ pc[s] = "convert"
        /\ pc[t] = "guard" /\ via[t] = "hit" /\ df[t].kind = "data"

\* The files load_data() may select from directory d.
Selectable(d) == LatestFiles(Glob(d))

MaxSelFiles == 2

MaxStamp == 3

Stamps == 1..MaxStamp

\* The directories: each file of ids gets a ctime and an mtime.
SelDirs ==
    UNION {{{[id |-> i, prefix |-> "dayresult", ext |-> ".xlsx",
              ctime |-> g[i][1], mtime |-> g[i][2], ok |-> TRUE] : i \in ids} :
               g \in [ids -> Stamps \X Stamps]} :
            ids \in SUBSET (1..MaxSelFiles)}

\* Every session's script is at line 114 and the cache is empty.
InitSelect ==
    /\ AsideIdle
    /\ now = 0
    /\ dir \in SelDirs
    /\ fsClock = 0
    /\ cache = NoEntry
    /\ lastCall = -1
    /\ pc = [s \in Sessions |-> "load"]
    /\ uploaded = [s \in Sessions |-> NoUpload]
    /\ df = [s \in Sessions |-> NoDF]
    /\ via = [s \in Sessions |-> "none"]
    /\ note = [s \in Sessions |-> "none"]
    /\ pressed = [s \in Sessions |-> FALSE]

NextSelect ==
    \E s \in Sessions :
        \/ LoadLookup(s)
        \/ LoadRead(s)
        \/ LoadConvert(s)
        \/ LoadReturn(s)

SpecSelect == InitSelect /\ [][NextSelect]_vars

\* C4: the file load_data() reads on a cold load is one whose modification
\* time is the most recent among the files that match the pattern.
C4_SelectsLatestModified ==
    \A s \in Sessions :
        df[s].kind = "data" =>
            \E f \in Glob(dir) :
                /\ f.id = df[s].file
                /\ \A g \in Glob(dir) : g.mtime <= f.mtime

(***************************************************************************)
(* SpecRender: one pass of lines 120-457 over a non-empty frame that has   *)
(* the mandatory columns and any subset of the optional ones.              *)
(*   rank 段位, newcomer 新人类型, kda KDA, power_diff 双方队伍战力差,     *)
(*   own_level5 己方5分钟平均等级, enemy_level5 敌方5分钟平均等级          *)
(***************************************************************************)
OptionalCols == {"rank", "newcomer", "kda", "power_diff", "own_level5", "enemy_level5"}

\* No session runs, the directory is empty.
MainIdle ==
    /\ now = 0
    /\ dir = {}
    /\ fsClock = 0
    /\ cache = NoEntry
    /\ lastCall = -1
    /\ pc = [s \in Sessions |-> "init"]
    /\ uploaded = [s \in Sessions |-> NoUpload]
    /\ df = [s \in Sessions |-> NoDF]
    /\ via = [s \in Sessions |-> "none"]
    /\ note = [s \in Sessions |-> "none"]
    /\ pressed = [s \in Sessions |-> FALSE]

InitRender ==
    /\ MainIdle
    /\ cols \in SUBSET OptionalCols
    /\ comeback \in BOOLEAN
    /\ rpc = "metrics"
    /\ shown = {}
    /\ rows = <<>>
    /\ stage = "off"
    /\ out = <<>>

\* The section renders `what` and the script goes on to section `next`.
Section(what, next) ==
    /\ shown' = shown \cup what
    /\ rpc' = next
    /\ UNCHANGED <<mainVars, aggVars, cols, comeback>>

\* Lines 123-167: the five metric cards.
MetricCards ==
    /\ rpc = "metrics"
    /\ Section({"total_players", "total_matches", "avg_time", "win_rate",
                "comeback_matches"}, "tab1")

\* Lines 176-223: hourly matches, daily players, cumulative win rate.
TrendTab ==
    /\ rpc = "tab1"
    /\ Section({"fig1", "fig2", "fig3"}, "rank")

\* Lines 229-244: if '段位' in df.columns.
RankChart ==
    /\ rpc = "rank"
    /\ Section(IF "rank" \in cols THEN {"fig4"} ELSE {}, "newcomer")

\* Lines 246-259: if '新人类型' in df.columns.
NewcomerChart ==
    /\ rpc = "newcomer"
    /\ Section(IF "newcomer" \in cols THEN {"fig5"} ELSE {}, "kda")

\* Lines 261-290: if 'KDA' in df.columns, line 278 reads filter_df, a name the
\* script never binds (the frame of line 275 is filtered_df): NameError.
KdaHeatmap ==
    /\ rpc = "kda"
    /\ IF "kda" \in cols
       THEN /\ rpc' = "crashed"
            /\ UNCHANGED <<mainVars, aggVars, cols, comeback, shown>>
       ELSE Section({}, "duration")

\* Lines 294-307: the histogram of 对局时间.
DurationHistogram ==
    /\ rpc = "duration"
    /\ Section({"fig7"}, "power")

\* Lines 309-325: if '双方队伍战力差' in df.columns.
PowerDiffChart ==
    /\ rpc = "power"
    /\ Section(IF "power_diff" \in cols THEN {"fig8"} ELSE {}, "comeback")

\* Lines 327-353: the comeback metrics, if some row is a comeback.
ComebackStats ==
    /\ rpc = "comeback"
    /\ Section(IF comeback
               THEN {"comeback_duration"}
                    \cup (IF {"own_level5", "enemy_level5"} \subseteq cols
                          THEN {"comeback_level_diff"} ELSE {})
                    \cup (IF "power_diff" \in cols THEN {"comeback_power_diff"} ELSE {})
               ELSE {}, "tab4")

\* Lines 355-440: the filters, the table, the download, the two summaries.
DetailTab ==
    /\ rpc = "tab4"
    /\ Section({"table", "download", "summary"}, "footer")

\* Lines 445-457: the captions and the bottom button.
RenderFooter ==
    /\ rpc = "footer"
    /\ Section({"captions", "refresh_button"}, "done")

NextRender ==
    \/ MetricCards
    \/ TrendTab
    \/ RankChart
    \/ NewcomerChart
    \/ KdaHeatmap
    \/ DurationHistogram
    \/ PowerDiffChart
    \/ ComebackStats
    \/ DetailTab
    \/ RenderFooter

SpecRender == InitRender /\ [][NextRender]_vars

\* What a pass over a frame with columns c shows when every chart whose
\* columns are present is rendered and the others are skipped.
Expected(c, cb) ==
    {"total_players", "total_matches", "avg_time", "win_rate", "comeback_matches",
     "fig1", "fig2", "fig3", "fig7", "table", "download", "summary",
     "captions", "refresh_button"}
    \cup (IF "rank" \in c THEN {"fig4"} ELSE {})
    \cup (IF "newcomer" \in c THEN {"fig5"} ELSE {})
    \cup (IF "kda" \in c /\ c \cap {"rank", "newcomer"} # {} THEN {"fig6"} ELSE {})
    \cup (IF "power_diff" \in c THEN {"fig8"} ELSE {})
    \cup (IF cb THEN {"comeback_duration"} ELSE {})
    \cup (IF cb /\ {"own_level5", "enemy_level5"} \subseteq c
          THEN {"comeback_level_diff"} ELSE {})
    \cup (IF cb /\ "power_diff" \in c THEN {"comeback_power_diff"} ELSE {})

\* C5: for every subset of the optional columns the pass runs to its end
\* without an unhandled error, and at the end every chart whose columns are
\* present is shown and no other.
C5_RenderCompletes ==
    /\ rpc # "crashed"
    /\ rpc = "done" => shown = Expected(cols, comeback)

(***************************************************************************)
(* The aggregates, over frames of a few rows. A row has the columns        *)
(*   pid 玩家id, rank 段位, kda KDA, win 是否获胜, ts 结束时间             *)
(* and a cell without a value holds NaN.                                   *)
(***************************************************************************)
MaxRows == 3

MaxFilterRows == 2

Players == {"p1", "p2"}

NoRank == "NaN"

Ranks == {"gold", "silver"}

\* The missing number; the KDA values are 0 and up.
NaN == -1

KdaValues == {0, 1}

\* The non-empty frames of up to n rows drawn from R.
Frames(R, n) == UNION {[1..k -> R] : k \in 1..n}

Indices(f) == 1..Len(f)

RECURSIVE SumWin(_, _)
\* df['是否获胜'] summed over the first k rows.
SumWin(f, k) == IF k = 0 THEN 0 ELSE f[k].win + SumWin(f, k - 1)

(***************************************************************************)
(* SpecRank: lines 129 and 231-233.                                        *)
(***************************************************************************)
RankRows == [pid : Players, rank : Ranks \cup {NoRank}, kda : {NaN}, win : {0}, ts : {1}]

InitRank ==
    /\ MainIdle
    /\ cols = {"rank"}
    /\ comeback = FALSE
    /\ rpc = "off"
    /\ shown = {}
    /\ rows \in Frames(RankRows, MaxRows)
    /\ stage = "loaded"
    /\ out = <<>>

\* df['玩家id'].nunique()
NUnique(f) == Cardinality({f[i].pid : i \in Indices(f)})

\* df[['玩家id', '段位']].drop_duplicates(): the distinct (player, rank) pairs.
DropDuplicates(f) == {<<f[i].pid, f[i].rank>> : i \in Indices(f)}

\* ['段位'].value_counts(): per rank, how many of the pairs have it; a pair
\* without a rank is not counted (dropna=True).
ValueCounts(pairs) ==
    [r \in {p[2] : p \in {q \in pairs : q[2] # NoRank}} |->
        Cardinality({p \in pairs : p[2] = r})]

RECURSIVE SumCounts(_)
\* rank_dist['人数'].sum()
SumCounts(c) ==
    IF DOMAIN c = {} THEN 0
    ELSE LET r == CHOOSE x \in DOMAIN c : TRUE
         IN  c[r] + SumCounts([x \in DOMAIN c \ {r} |-> c[x]])

\* Line 129: total_players.
PlayersCard ==
    /\ stage = "loaded"
    /\ out' = [total_players |-> NUnique(rows)]
    /\ stage' = "card"
    /\ UNCHANGED <<mainVars, renderVars, rows>>

\* Lines 231-233: rank_dist.
RankDistribution ==
    /\ stage = "card"
    /\ "rank" \in cols
    /\ out' = [total_players |-> out.total_players,
               rank_dist |-> ValueCounts(DropDuplicates(rows))]
    /\ stage' = "ranked"
    /\ UNCHANGED <<mainVars, renderVars, rows>>

NextRank == PlayersCard \/ RankDistribution

SpecRank == InitRank /\ [][NextRank]_vars

\* C6: the counts of rank_dist sum to the number of distinct players.
C6_RankCountsSumToPlayers ==
    stage = "ranked" => SumCounts(out.rank_dist) = out.total_players

(***************************************************************************)
(* SpecFilter: lines 364-396.                                              *)
(***************************************************************************)
\* The rows of a frame with columns c: a column the frame lacks holds nothing.
FilterRows(c) ==
    [pid : {"p1"},
     rank : IF "rank" \in c THEN Ranks \cup {NoRank} ELSE {NoRank},
     kda : IF "kda" \in c THEN KdaValues \cup {NaN} ELSE {NaN},
     win : {0, 1},
     ts : {1}]

InitFilter ==
    /\ MainIdle
    /\ cols \in SUBSET {"rank", "kda"}
    /\ comeback = FALSE
    /\ rpc = "off"
    /\ shown = {}
    /\ rows \in Frames(FilterRows(cols), MaxFilterRows)
    /\ stage = "loaded"
    /\ out = <<>>

\* Lines 364-379: what the widgets can hold. The multiselect offers
\* df['段位'].unique(), or nothing without the column.
FilterSpecs(f, c) ==
    [selected_ranks : SUBSET (IF "rank" \in c THEN {f[i].rank : i \in Indices(f)} ELSE {}),
     min_kda : KdaValues,
     max_kda : KdaValues,
     win_filter : {"all", "yes", "no"}]

\* Lines 384-385 (frame[mask] keeps the rows the mask holds for, in order).
RankFilter(f, c, F) ==
    IF F.selected_ranks # {} /\ "rank" \in c
    THEN LET Keep(r) == r.rank \in F.selected_ranks IN SelectSeq(f, Keep)
    ELSE f

\* Lines 387-391: a comparison with NaN is False.
KdaFilter(f, c, F) ==
    IF "kda" \in c
    THEN LET Keep(r) == r.kda # NaN /\ r.kda >= F.min_kda /\ r.kda <= F.max_kda
         IN  SelectSeq(f, Keep)
    ELSE f

\* Lines 393-396.
WinFilter(f, F) ==
    IF F.win_filter = "yes" THEN LET Keep(r) == r.win = 1 IN SelectSeq(f, Keep)
    ELSE IF F.win_filter = "no" THEN LET Keep(r) == r.win = 0 IN SelectSeq(f, Keep)
    ELSE f

\* The KDA mask taken from the unfiltered frame and laid over the frame the
\* rank filter left, row by row: row i is kept when row i of df is in range.
ApplyFiltersMisaligned(f, c, F) ==
    LET g == RankFilter(f, c, F)
        kept == IF "kda" \in c
                THEN {i \in Indices(g) :
                        f[i].kda # NaN /\ f[i].kda >= F.min_kda /\ f[i].kda <= F.max_kda}
                ELSE Indices(g)
        RECURSIVE Take(_)
        Take(i) == IF i > Len(g) THEN <<>>
                   ELSE (IF i \in kept THEN <<g[i]>> ELSE <<>>) \o Take(i + 1)
    IN  WinFilter(Take(1), F)

\* Lines 382-396: filtered_data.
ApplyFilters(f, c, F) == WinFilter(KdaFilter(RankFilter(f, c, F), c, F), F)

\* Lines 382-396 under the widgets' values F.
FilterStep ==
    /\ stage = "loaded"
    /\ \E F \in FilterSpecs(rows, cols) :
          out' = [F |-> F, filtered_data |-> ApplyFilters(rows, cols, F)]
    /\ stage' = "filtered"
    /\ UNCHANGED <<mainVars, renderVars, rows>>

\* Lines 426-428: the summary of the filtered view.
FilterSummary ==
    /\ stage = "filtered"
    /\ out' = [F |-> out.F, filtered_data |-> out.filtered_data,
               n_rows |-> Len(out.filtered_data)]
    /\ stage' = "summarised"
    /\ UNCHANGED <<mainVars, renderVars, rows>>

NextFilter == FilterStep \/ FilterSummary

SpecFilter == InitFilter /\ [][NextFilter]_vars

\* C7: filtering the filtered view again with the same FilterSpec returns the
\* same rows, and the filter step leaves the source frame as it was.
C7_FilterIdempotent ==
    /\ [](stage \in {"filtered", "summarised"} =>
            ApplyFilters(out.filtered_data, cols, out.F) = out.filtered_data)
    /\ [][rows' = rows]_vars

\* A filter that removed some rows and kept others, by rank and by KDA.
C7_Witness ==
    /\ stage = "filtered"
    /\ out.F.selected_ranks # {}
    /\ out.F.win_filter # "all"
    /\ cols = {"rank", "kda"}
    /\ out.filtered_data # <<>>
    /\ Len(out.filtered_data) < Len(rows)

(***************************************************************************)
(* SpecWin: lines 153 and 209-211.                                         *)
(***************************************************************************)
WinRows == [pid : {"p1"}, rank : {NoRank}, kda : {NaN}, win : {0, 1}, ts : {1, 2}]

InitWin ==
    /\ MainIdle
    /\ cols = {}
    /\ comeback = FALSE
    /\ rpc = "off"
    /\ shown = {}
    /\ rows \in Frames(WinRows, MaxRows)
    /\ stage = "loaded"
    /\ out = <<>>

\* A rate as the quotient num / den it is computed as.
Rate(n, d) == [num |-> n, den |-> d]

SameRate(a, b) == a.num * b.den = b.num * a.den

\* The orders df.sort_values('结束时间') may give the rows: ascending in ts,
\* rows of equal ts in any order (the default sort is not stable).
SortOrders(f) ==
    {p \in [Indices(f) -> Indices(f)] :
        /\ \A i, j \in Indices(f) : i # j => p[i] # p[j]
        /\ \A i, j \in Indices(f) : i < j => f[p[i]].ts <= f[p[j]].ts}

\* .rolling(2, min_periods=1).mean() * 100: the mean of the last two rows.
RollingMean2(f) ==
    [k \in Indices(f) |->
        IF k = 1 THEN Rate(f[1].win * 100, 1)
        ELSE Rate((f[k - 1].win + f[k].win) * 100, 2)]

\* Line 211: .expanding().mean() * 100, the mean of the first k rows.
ExpandingMean(f) == [k \in Indices(f) |-> Rate(SumWin(f, k) * 100, k)]

\* Line 153: win_rate = df['是否获胜'].sum() / len(df) * 100.
WinRateCard ==
    /\ stage = "loaded"
    /\ out' = [win_rate |-> Rate(SumWin(rows, Len(rows)) * 100, Len(rows))]
    /\ stage' = "card"
    /\ UNCHANGED <<mainVars, renderVars, rows>>

\* Lines 209-211: df_sorted and its 累计胜率.
WinRateTrend ==
    /\ stage = "card"
    /\ \E p \in SortOrders(rows) :
          LET df_sorted == [i \in Indices(rows) |-> rows[p[i]]]
          IN  out' = [win_rate |-> out.win_rate,
                      df_sorted |-> df_sorted,
                      cum |-> ExpandingMean(df_sorted)]
    /\ stage' = "trend"
    /\ UNCHANGED <<mainVars, renderVars, rows>>

NextWin == WinRateCard \/ WinRateTrend

SpecWin == InitWin /\ [][NextWin]_vars

\* C8: every value of the cumulative win rate lies in [0, 100] and the last
\* one is the overall win rate of the summary card.
C8_CumulativeWinRate ==
    stage = "trend" =>
        /\ \A k \in DOMAIN out.cum :
              /\ out.cum[k].den > 0
              /\ 0 <= out.cum[k].num
              /\ out.cum[k].num <= 100 * out.cum[k].den
        /\ SameRate(out.cum[Len(out.cum)], out.win_rate)

\* A series over rows of both outcomes whose sort reordered the rows and whose
\* values are not all the same.
C8_Witness ==
    /\ stage = "trend"
    /\ Len(rows) = MaxRows
    /\ out.df_sorted # rows
    /\ \E j, k \in DOMAIN out.cum : ~SameRate(out.cum[j], out.cum[k])

====
